---- MODULE Spec2Model ----
(***************************************************************************)
(* py3xui: the session/login layer (Api, BaseApi), the retry wrapper       *)
(* BaseApi._request_with_retry and the getters built on it                 *)
(* (ClientApi.get_by_email, InboundApi.get_by_id).                         *)
(*                                                                         *)
(* The library is sequential: one call is in progress at a time.  A call   *)
(* is followed through the retry loop one iteration per step, because      *)
(* each iteration talks to the panel, whose answer is the environment's.   *)
(* What a handler does once the request has returned or raised (storing    *)
(* the cookie, copying the session, parsing 'obj') happens in the same     *)
(* step that ends the request.                                             *)
(***************************************************************************)
EXTENDS Integers, Sequences, FiniteSets, TLC

\* ---------------------------------------------------------------- bounds

\* Largest value given to the max_retries setter.
MaxRetriesBound == 3

\* ------------------------------------------------------------- constants

\* BaseApi.__init__: self._max_retries = 3
DefaultMaxRetries == 3

\* Python's None.
None == "None"

\* The three API objects an Api holds.
Objs == {"client", "inbound", "database"}

\* Session cookies the panel hands out.
Cookies == {"c1", "c2"}

\* response.cookies.get("session"): no cookie, an empty one, or a cookie.
CookieVals == {"missing", "empty"} \cup Cookies

\* response.json().get("success"): the key is missing, or holds null/false/true.
SuccessVals == {"missing", "null", "false", "true"}

\* response.json().get("obj"): missing, null, an empty object, or an object.
ObjVals == {"missing", "null", "empty", "object"}

\* ApiFields.NO_IP_RECORD
NO_IP_RECORD == "No IP Record"

\* 'obj' in the answer to clientIps: missing, null, the sentinel, or IP records.
IpsVals == {"missing", "null", NO_IP_RECORD, "10.0.0.1,10.0.0.2"}

\* An empty list, and the lists of emails 'obj' holds in the answer to onlines.
EmptyList == "[]"
EmailLists == {"[a@x.io]", "[a@x.io, b@x.io]"}

\* 'obj' in the answer to onlines: missing, null, an empty or a non-empty list.
OnlineVals == {"missing", "null", EmptyList} \cup EmailLists

\* Emails and inbound ids given to the getters.
Emails == {"a@x.io", "b@x.io"}
InboundIds == {"1"}

\* What the panel does to the next attempt: it cannot be reached, it does not
\* answer in time, it answers with an HTTP error status, or it answers 2xx.
ServerStates == {"unreachable", "slow", "error_status", "up"}

VARIABLES
    api,          \* "none": no Api object; "ready": Api.__init__ has returned
    session,      \* session[o]: BaseApi._session of each API object
    max_retries,  \* max_retries[o]: BaseApi._max_retries of each API object
    server,       \* what the panel will do to the next attempt
    op,           \* the public operation in progress or last finished
    obj,          \* the API object whose _request_with_retry runs
    arg,          \* the operation's argument (an email, an inbound id) or None
    method,       \* "GET" or "POST" (requests.get / requests.post)
    endpoint,     \* the endpoint given to _url
    skip_arg,     \* the skip_check argument the caller passed (TRUE/FALSE)
    kwargs,       \* kwargs["skip_check"]: "True", "False" or "absent"
    retry,        \* the loop variable of `for retry in range(1, max_retries + 1)`
    outs,         \* outcome of each attempt made by this call, in order
    waits,        \* argument of each completed sleep() of this call, in order
    sent,         \* each attempt as sent: [cookie, method, endpoint]
    pc,           \* "idle", "loop" (at the for head), "sleep" (line 189), "done"
    resp,         \* the response the request returned: [success, obj, cookie]
    result,       \* how the operation ended: "returned" or the exception raised
    ret,          \* the value the operation returned
    nreq,         \* calls of _request_with_retry made by the operation
    skip_login,   \* the skip_login argument of Api(...); FALSE in every other call
    logged_in     \* some login has stored a session since the Api was built

vars == << api, session, max_retries, server, op, obj, arg, method, endpoint,
           skip_arg, kwargs, retry, outs, waits, sent, pc, resp, result, ret,
           nreq, skip_login, logged_in >>

callvars == << op, obj, arg, method, endpoint, skip_arg, kwargs, retry, outs, waits,
               sent, pc, resp, result, ret, nreq >>

NoResp == [success |-> "missing", obj |-> "missing", cookie |-> "missing"]

Responses == [success : SuccessVals, obj : ObjVals, cookie : CookieVals]

\* ------------------------------------------------------- pure functions

\* A check written `status is False`: a missing or null field passes.
TruthyNotFalse(v) == v # "false"

\* Python truthiness of a JSON 'success' value (`if not status`).
Truthy(v) == v = "true"

\* A check written `client_json is None`: an empty object passes.
ObjTruthyNotNone(v) == v \notin {"missing", "null"}

\* Python truthiness of 'obj' (`if not client_json`): None and {} are falsy.
ObjTruthy(v) == v = "object"

\* A check written `cookie is None`: an empty cookie passes.
CookieTruthyNotNone(c) == c # "missing"

\* Python truthiness of a cookie value (`if not cookie`): None and "" are falsy.
CookieTruthy(c) == c \in Cookies

\* BaseApi._check_response: "ValueError" when `not status`, else passes.
check_response(r) == IF ~Truthy(r.success) THEN "ValueError" ELSE "ok"

\* The exception requests raises for what the panel does.
ServerOutcome(s) ==
    CASE s = "unreachable"  -> "ConnectionError"
      [] s = "slow"         -> "Timeout"
      [] s = "error_status" -> "HTTPError"
      [] s = "up"           -> "ok"

\* An except clause that catches every RequestException for a retry.
IsTransientAny(e) == e # "ok"

\* except (requests.exceptions.ConnectionError, requests.exceptions.Timeout)
IsTransient(e) == e \in {"ConnectionError", "Timeout"}

\* range(1, self.max_retries + 1)
RetryRange(m) == 1 .. m

\* The client's session sent whichever object makes the request.
CookieSentClient(o) == session["client"]

\* cookies={"session": self.session}
CookieSent(o) == session[o]

\* skip_check = kwargs.pop("skip_check", False)
PopSkipCheck(kw) == kw = "True"

\* sleep(1 * (retry + 1))
Backoff(r) == 1 * (r + 1)

\* Inbound.model_validate(inbound_json): an object validates, None does not.
InboundValidate(v) == IF v = "object" THEN "Inbound" ELSE "ValidationError"

\* Client.model_validate(client_json)
ClientValidate(v) == IF v = "object" THEN "Client" ELSE "ValidationError"

\* What the panel puts in a 2xx answer to each kind of request.
Bodies(o) ==
    CASE o \in {"login", "api_login", "ctor"} ->
            [success : SuccessVals, obj : {"missing"}, cookie : CookieVals]
      [] o = "get_ips" -> [success : SuccessVals, obj : IpsVals, cookie : {"missing"}]
      [] o = "online" -> [success : SuccessVals, obj : OnlineVals, cookie : {"missing"}]
      [] OTHER -> [success : SuccessVals, obj : ObjVals, cookie : {"missing"}]

\* dict.get(key): None when the key is missing or holds null, else the value.
JsonGet(v) == IF v \in {"missing", "null"} THEN None ELSE v

\* Python truthiness of a list or None (`online or []`).
ListTruthy(v) == v \notin {None, EmptyList}

\* The last pass never raises, so a sleep follows it too.
IsLastRetryNever(r, m) == FALSE

\* if retry == self.max_retries: raise e
IsLastRetry(r, m) == r = m

\* ------------------------------------------------------------ handlers

\* A constructor that logs in whatever skip_login says.
ShouldLoginAlways(skip) == TRUE

\* Api.__init__: `if not skip_login: self.login()`
ShouldLogin(skip) == ~skip

\* BaseApi.login after _post: "ValueError" when `not cookie`; a raised request
\* propagates.
LoginResult(res, body) ==
    IF res # "returned" THEN res
    ELSE IF ~CookieTruthy(body.cookie) THEN "ValueError"
    ELSE "returned"

\* BaseApi.login: `self.session = cookie`, reached only when nothing raised.
LoginSession(s, o, res, body) ==
    IF LoginResult(res, body) = "returned" THEN [s EXCEPT ![o] = body.cookie] ELSE s

\* An Api.login that forgets the database API.
ShareSessionInboundOnly(s) == [s EXCEPT !["inbound"] = s["client"]]

\* Api.login: inbound.session = client.session; database.session = client.session
ShareSession(s) ==
    [s EXCEPT !["inbound"] = s["client"], !["database"] = s["client"]]

\* Api.login: client.login() first; the two copies run only if it returned.
ApiLoginSession(s, res, body) ==
    IF LoginResult(res, body) = "returned"
    THEN ShareSession(LoginSession(s, "client", res, body))
    ELSE s

\* ClientApi.get_by_email after _get: None when `not client_json`.
GetByEmailReturn(body) ==
    IF ~ObjTruthy(body.obj) THEN None ELSE ClientValidate(body.obj)

\* InboundApi.get_by_id after _get: Inbound.model_validate(inbound_json).
GetByIdReturn(body) == InboundValidate(body.obj)

\* A get_ips that hands 'obj' back as it is, the sentinel included.
GetIpsReturnRaw(body) == JsonGet(body.obj)

\* ClientApi.get_ips after _post:
\* `return ips_json if ips_json != ApiFields.NO_IP_RECORD else None`
GetIpsReturn(body) ==
    LET ips_json == JsonGet(body.obj)
    IN  IF ips_json # NO_IP_RECORD THEN ips_json ELSE None

\* An online that hands 'obj' back as it is, None included.
OnlineReturnRaw(body) == JsonGet(body.obj)

\* ClientApi.online after _post: `return online or []`
OnlineReturn(body) ==
    LET online == JsonGet(body.obj)
    IN  IF ListTruthy(online) THEN online ELSE EmptyList

\* The operation's outcome once its request has ended with `res` (and, when a
\* response was received, `body`).
OpResult(o, res, body) ==
    CASE o \in {"login", "api_login", "ctor"} -> LoginResult(res, body)
      [] o = "get_by_id" ->
            IF res # "returned" THEN res
            ELSE IF GetByIdReturn(body) = "ValidationError" THEN "ValidationError"
            ELSE "returned"
      [] o = "get_by_email" ->
            IF res # "returned" THEN res
            ELSE IF GetByEmailReturn(body) = "ValidationError" THEN "ValidationError"
            ELSE "returned"
      [] OTHER -> res

OpReturn(o, res, body) ==
    IF OpResult(o, res, body) # "returned" THEN None
    ELSE CASE o = "get_by_email" -> GetByEmailReturn(body)
           [] o = "get_by_id"    -> GetByIdReturn(body)
           [] o = "get_ips"      -> GetIpsReturn(body)
           [] o = "online"       -> OnlineReturn(body)
           [] o = "request"      -> "Response"
           [] OTHER              -> None

\* The end of _request_with_retry and the rest of the handler that called it.
Finish(res, body) ==
    /\ pc' = "done"
    /\ resp' = body
    /\ result' = OpResult(op, res, body)
    /\ ret' = OpReturn(op, res, body)
    /\ session' = CASE op = "login" -> LoginSession(session, obj, res, body)
                    [] op \in {"api_login", "ctor"} -> ApiLoginSession(session, res, body)
                    [] OTHER -> session
    /\ logged_in' = (logged_in \/ (op \in {"login", "api_login", "ctor"}
                                    /\ LoginResult(res, body) = "returned"))
    /\ api' = IF op = "ctor"
              THEN (IF LoginResult(res, body) = "returned" THEN "ready" ELSE "none")
              ELSE api

\* A call of _get / _post: _request_with_retry starts at the head of its loop.
Begin(o, who, a, m, ep, skip) ==
    /\ op' = o
    /\ obj' = who
    /\ arg' = a
    /\ method' = m
    /\ endpoint' = ep
    /\ skip_arg' = skip
    /\ kwargs' = skip
    /\ retry' = 1
    /\ outs' = << >>
    /\ waits' = << >>
    /\ sent' = << >>
    /\ pc' = "loop"
    /\ resp' = NoResp
    /\ result' = "pending"
    /\ ret' = None
    /\ nreq' = 1
    /\ server' \in ServerStates

Idle == pc \in {"idle", "done"}

\* -------------------------------------------------------------- actions

\* Api(host, username, password, skip_login) / Api.from_env(skip_login)
Construct(skip) ==
    /\ Idle
    /\ skip_login' = skip
    /\ session' = [o \in Objs |-> None]
    /\ max_retries' = [o \in Objs |-> DefaultMaxRetries]
    /\ logged_in' = FALSE
    /\ IF ShouldLogin(skip)
       THEN /\ Begin("ctor", "client", None, "POST", "login", "absent")
            /\ api' = "none"
       ELSE /\ api' = "ready"
            /\ op' = "ctor"
            /\ obj' = "client"
            /\ arg' = None
            /\ pc' = "done"
            /\ result' = "returned"
            /\ nreq' = 0
            /\ outs' = << >>
            /\ waits' = << >>
            /\ sent' = << >>
            /\ resp' = NoResp
            /\ ret' = None
            /\ retry' = 1
            /\ UNCHANGED << method, endpoint, skip_arg, kwargs, server >>

\* Api.login
ApiLogin ==
    /\ Idle
    /\ api = "ready"
    /\ Begin("api_login", "client", None, "POST", "login", "absent")
    /\ skip_login' = FALSE
    /\ UNCHANGED << api, session, max_retries, logged_in >>

\* BaseApi.login called on one API object
Login(who) ==
    /\ Idle
    /\ api = "ready"
    /\ Begin("login", who, None, "POST", "login", "absent")
    /\ skip_login' = FALSE
    /\ UNCHANGED << api, session, max_retries, logged_in >>

\* ClientApi.get_by_email(email)
GetByEmail(email) ==
    /\ Idle
    /\ api = "ready"
    /\ Begin("get_by_email", "client", email, "GET",
             "panel/api/inbounds/getClientTraffics/" \o email, "absent")
    /\ skip_login' = FALSE
    /\ UNCHANGED << api, session, max_retries, logged_in >>

\* ClientApi.get_ips(email)
GetIps(email) ==
    /\ Idle
    /\ api = "ready"
    /\ Begin("get_ips", "client", email, "POST",
             "panel/api/inbounds/clientIps/" \o email, "absent")
    /\ skip_login' = FALSE
    /\ UNCHANGED << api, session, max_retries, logged_in >>

\* ClientApi.online()
Online ==
    /\ Idle
    /\ api = "ready"
    /\ Begin("online", "client", None, "POST", "panel/api/inbounds/onlines", "absent")
    /\ skip_login' = FALSE
    /\ UNCHANGED << api, session, max_retries, logged_in >>

\* InboundApi.get_by_id(inbound_id).  self.logger.info(...) comes before _get;
\* neither InboundApi nor BaseApi sets an attribute `logger`, so the lookup
\* raises AttributeError unless the embedding program has set one
\* (logger_bound).
GetById(id, logger_bound) ==
    /\ Idle
    /\ api = "ready"
    /\ IF logger_bound
       THEN Begin("get_by_id", "inbound", id, "GET", "panel/api/inbounds/get/" \o id, "absent")
       ELSE /\ op' = "get_by_id"
            /\ obj' = "inbound"
            /\ arg' = id
            /\ pc' = "done"
            /\ result' = "AttributeError"
            /\ nreq' = 0
            /\ outs' = << >>
            /\ waits' = << >>
            /\ sent' = << >>
            /\ resp' = NoResp
            /\ ret' = None
            /\ retry' = 1
            /\ UNCHANGED << method, endpoint, skip_arg, kwargs, server >>
    /\ skip_login' = FALSE
    /\ UNCHANGED << api, session, max_retries, logged_in >>

\* A direct _get(url, headers, skip_check=...) on an API object
Request(who, skip) ==
    /\ Idle
    /\ api = "ready"
    /\ Begin("request", who, None, "GET", "server/getDb", skip)
    /\ skip_login' = FALSE
    /\ UNCHANGED << api, session, max_retries, logged_in >>

\* The max_retries setter
SetMaxRetries(who, v) ==
    /\ Idle
    /\ api = "ready"
    /\ max_retries' = [max_retries EXCEPT ![who] = v]
    /\ op' = "set_max_retries"
    /\ obj' = who
    /\ arg' = None
    /\ pc' = "done"
    /\ result' = "returned"
    /\ nreq' = 0
    /\ outs' = << >>
    /\ waits' = << >>
    /\ sent' = << >>
    /\ resp' = NoResp
    /\ ret' = None
    /\ retry' = 1
    /\ skip_login' = FALSE
    /\ UNCHANGED << api, session, server, logged_in, method, endpoint, skip_arg, kwargs >>

\* One pass of `for retry in range(1, self.max_retries + 1)`: the loop head,
\* then the try body and the except clauses up to the sleep.
LoopIter ==
    /\ pc = "loop"
    /\ UNCHANGED << max_retries, op, obj, arg, method, endpoint, skip_arg, waits,
                    nreq, retry, skip_login >>
    /\ IF retry \notin RetryRange(max_retries[obj])
       THEN \* the loop is exhausted: raise RetryError
            /\ Finish("RetryError", NoResp)
            /\ UNCHANGED << kwargs, sent, outs, server >>
       ELSE LET skip_check == PopSkipCheck(kwargs)
                out == ServerOutcome(server)
            IN  /\ kwargs' = "absent"
                /\ sent' = Append(sent, [cookie |-> CookieSent(obj),
                                         method |-> method, endpoint |-> endpoint])
                /\ outs' = Append(outs, out)
                /\ IF out = "ok"
                   THEN /\ server' = server
                        /\ \E body \in Bodies(op) :
                              IF skip_check
                              THEN Finish("returned", body)
                              ELSE IF check_response(body) = "ValueError"
                                   THEN Finish("ValueError", body)
                                   ELSE Finish("returned", body)
                   ELSE IF IsTransient(out)
                   THEN IF IsLastRetry(retry, max_retries[obj])
                        THEN /\ server' = server
                             /\ Finish(out, NoResp)
                        ELSE \* the panel's state by the time of the next pass
                             /\ server' \in ServerStates
                             /\ pc' = "sleep"
                             /\ UNCHANGED << resp, result, ret, session, logged_in, api >>
                   ELSE /\ server' = server
                        /\ Finish(out, NoResp)

\* sleep(1 * (retry + 1)), then the next pass of the loop.  The module never
\* binds the name `sleep` (it imports typing, requests and Logger only), so
\* the lookup raises NameError out of the except clause unless the embedding
\* program has bound the name in the module (sleep_bound).
Sleep(sleep_bound) ==
    /\ pc = "sleep"
    /\ UNCHANGED << max_retries, server, op, obj, arg, method, endpoint, skip_arg,
                    kwargs, outs, sent, nreq, skip_login >>
    /\ IF sleep_bound
       THEN /\ waits' = Append(waits, Backoff(retry))
            /\ retry' = retry + 1
            /\ pc' = "loop"
            /\ UNCHANGED << resp, result, ret, session, logged_in, api >>
       ELSE /\ Finish("NameError", NoResp)
            /\ UNCHANGED << waits, retry >>

Init ==
    /\ api = "none"
    /\ session = [o \in Objs |-> None]
    /\ max_retries = [o \in Objs |-> DefaultMaxRetries]
    /\ server \in ServerStates
    /\ op = "none"
    /\ obj = "client"
    /\ arg = None
    /\ method = "GET"
    /\ endpoint = ""
    /\ skip_arg = "absent"
    /\ kwargs = "absent"
    /\ retry = 1
    /\ outs = << >>
    /\ waits = << >>
    /\ sent = << >>
    /\ pc = "idle"
    /\ resp = NoResp
    /\ result = "pending"
    /\ ret = None
    /\ nreq = 0
    /\ skip_login = FALSE
    /\ logged_in = FALSE

Next ==
    \/ \E skip \in BOOLEAN : Construct(skip)
    \/ ApiLogin
    \/ Login("client")
    \/ \E email \in Emails : GetByEmail(email)
    \/ \E email \in Emails : GetIps(email)
    \/ Online
    \/ \E id \in InboundIds, logger_bound \in BOOLEAN : GetById(id, logger_bound)
    \/ \E skip \in {"absent", "True", "False"} : Request("client", skip)
    \/ \E v \in 0 .. MaxRetriesBound : SetMaxRetries("client", v)
    \/ LoopIter
    \/ \E sleep_bound \in BOOLEAN : Sleep(sleep_bound)

Spec == Init /\ [][Next]_vars

\* The loop of _request_with_retry is sequential code: a pass that can run
\* does run, and a sleep that has started ends.
FairSpec == Spec /\ WF_vars(LoopIter) /\ WF_vars(\E sleep_bound \in BOOLEAN : Sleep(sleep_bound))

\* ------------------------------------------------- Python values and JSON

\* A Python value is a record tagged with its type: [t |-> "none"],
\* [t |-> "bool", bool |-> TRUE], [t |-> "int", int |-> 1],
\* [t |-> "str", chars |-> s], [t |-> "list", items |-> <<...>>],
\* [t |-> "dict", members |-> [key |-> value]].
\* The text of a str is a sequence of symbols: the JSON punctuation, the three
\* JSON literals, the double quote, and letters (a word stands for its
\* letters, which never include punctuation).
PyNone == [t |-> "none"]
PyBool(b) == [t |-> "bool", bool |-> b]
PyInt(n) == [t |-> "int", int |-> n]
PyStr(x) == [t |-> "str", chars |-> x]
PyList(x) == [t |-> "list", items |-> x]
PyDict(f) == [t |-> "dict", members |-> f]

\* The double quote character.
DQ == "dquote"

Punctuation == {"{", "}", "[", "]", ":", ","}
Literals == {"null", "true", "false"}

\* A symbol that is neither punctuation, a literal nor the quote is a letter.
IsLetter(c) == c \notin (Punctuation \cup Literals \cup {DQ})

ParseFail == [ok |-> FALSE, val |-> PyNone, next |-> 0]

\* The string literal starting at x[i] (x[i] is the opening quote): letters up
\* to the closing quote.
RECURSIVE ScanString(_, _, _)
ScanString(x, i, acc) ==
    IF i > Len(x) THEN ParseFail
    ELSE IF x[i] = DQ THEN [ok |-> TRUE, val |-> PyStr(acc), next |-> i + 1]
    ELSE IF IsLetter(x[i]) THEN ScanString(x, i + 1, Append(acc, x[i]))
    ELSE ParseFail

\* json.loads, the decoder: the value starting at x[i] and the index after it.
RECURSIVE ParseValue(_, _)
RECURSIVE ParseElements(_, _, _)
RECURSIVE ParseMembers(_, _, _)

ParseValue(x, i) ==
    IF i > Len(x) THEN ParseFail
    ELSE CASE x[i] = "null"  -> [ok |-> TRUE, val |-> PyNone, next |-> i + 1]
           [] x[i] = "true"  -> [ok |-> TRUE, val |-> PyBool(TRUE), next |-> i + 1]
           [] x[i] = "false" -> [ok |-> TRUE, val |-> PyBool(FALSE), next |-> i + 1]
           [] x[i] = DQ      -> ScanString(x, i + 1, << >>)
           [] x[i] = "["     ->
                IF i + 1 <= Len(x) /\ x[i + 1] = "]"
                THEN [ok |-> TRUE, val |-> PyList(<< >>), next |-> i + 2]
                ELSE ParseElements(x, i + 1, << >>)
           [] x[i] = "{"     ->
                IF i + 1 <= Len(x) /\ x[i + 1] = "}"
                THEN [ok |-> TRUE, val |-> PyDict(<< >>), next |-> i + 2]
                ELSE ParseMembers(x, i + 1, << >>)
           [] OTHER          -> ParseFail

\* The elements of a list after "[" or ",": a value, then "," or "]".
ParseElements(x, i, acc) ==
    LET e == ParseValue(x, i)
    IN  IF ~e.ok \/ e.next > Len(x) THEN ParseFail
        ELSE IF x[e.next] = "]"
             THEN [ok |-> TRUE, val |-> PyList(Append(acc, e.val)), next |-> e.next + 1]
        ELSE IF x[e.next] = ","
             THEN ParseElements(x, e.next + 1, Append(acc, e.val))
        ELSE ParseFail

\* The members of an object after "{" or ",": a string, ":", a value, then
\* "," or "}".  A key given twice keeps its last value.
ParseMembers(x, i, acc) ==
    IF i > Len(x) \/ x[i] # DQ THEN ParseFail
    ELSE LET k == ScanString(x, i + 1, << >>)
         IN  IF ~k.ok \/ k.next > Len(x) \/ x[k.next] # ":" THEN ParseFail
             ELSE LET e == ParseValue(x, k.next + 1)
                      d == [key \in (DOMAIN acc) \cup {k.val.chars} |->
                               IF key = k.val.chars THEN e.val ELSE acc[key]]
                  IN  IF ~e.ok \/ e.next > Len(x) THEN ParseFail
                      ELSE IF x[e.next] = "}"
                           THEN [ok |-> TRUE, val |-> PyDict(d), next |-> e.next + 1]
                      ELSE IF x[e.next] = ","
                           THEN ParseMembers(x, e.next + 1, d)
                      ELSE ParseFail

\* json.loads(text): the value, or JSONDecodeError (no value, or data after it).
Loads(x) ==
    LET r == ParseValue(x, 1)
    IN  IF r.ok /\ r.next = Len(x) + 1 THEN [ok |-> TRUE, val |-> r.val]
        ELSE [ok |-> FALSE, val |-> PyNone]

\* The compact JSON text pydantic's model_dump_json writes for a value
\* (dicts, written in field order, are done by DumpFields).
RECURSIVE DumpValue(_)
RECURSIVE DumpElements(_, _)

DumpElements(q, i) ==
    IF i > Len(q) THEN << >>
    ELSE (IF i > 1 THEN << "," >> ELSE << >>) \o DumpValue(q[i]) \o DumpElements(q, i + 1)

DumpValue(val) ==
    CASE val.t = "none" -> << "null" >>
      [] val.t = "bool" -> IF val.bool THEN << "true" >> ELSE << "false" >>
      [] val.t = "str"  -> << DQ >> \o val.chars \o << DQ >>
      [] val.t = "list" -> << "[" >> \o DumpElements(val.items, 1) \o << "]" >>
      [] val.t = "dict" -> << "{", "}" >>

\* The members of a model in field order: "key":value, separated by commas.
RECURSIVE DumpMembers(_, _, _)
DumpMembers(f, order, i) ==
    IF i > Len(order) THEN << >>
    ELSE (IF i > 1 THEN << "," >> ELSE << >>)
         \o << DQ >> \o order[i] \o << DQ, ":" >> \o DumpValue(f[order[i]])
         \o DumpMembers(f, order, i + 1)

DumpFields(f, order) == << "{" >> \o DumpMembers(f, order, 1) \o << "}" >>

\* --------------------------------------------------------- data models

\* An instance of a class: [t |-> "obj", cls |-> class name, attrs |-> attributes].
Instance(c, a) == [t |-> "obj", cls |-> c, attrs |-> a]

\* The methods a class offers.  Inbound, Settings and StreamSettings derive
\* from pydantic's BaseModel; Sniffing is a plain class with __init__ and to_json.
Methods(c) ==
    CASE c \in {"Inbound", "Settings", "StreamSettings"} ->
             {"model_dump", "model_dump_json", "model_validate", "to_json"}
      [] c = "Sniffing" -> {"__init__", "to_json"}

\* The fields of a class in declaration order.
FieldOrder(c) ==
    CASE c = "Inbound" ->
             << "enable", "port", "protocol", "settings", "stream_settings", "sniffing",
                "listen", "remark", "id", "up", "down", "total", "expiry_time",
                "client_stats", "tag" >>
      [] c = "Settings" -> << "clients", "decryption", "fallbacks" >>
      [] c = "StreamSettings" ->
             << "security", "network", "tcp_settings", "external_proxy",
                "reality_settings", "xtls_settings", "tls_settings" >>
      [] c = "Sniffing" -> << "enabled", "dest_override", "metadata_only", "route_only" >>

\* Field(alias=...): the JSON name of a field.
Alias(n) ==
    CASE n = "stream_settings"  -> "streamSettings"
      [] n = "expiry_time"      -> "expiryTime"
      [] n = "client_stats"     -> "clientStats"
      [] n = "tcp_settings"     -> "tcpSettings"
      [] n = "external_proxy"   -> "externalProxy"
      [] n = "reality_settings" -> "realitySettings"
      [] n = "xtls_settings"    -> "xtlsSettings"
      [] n = "tls_settings"     -> "tlsSettings"
      [] OTHER                  -> n

\* The field names of a class as a set.
FieldNames(c) == {FieldOrder(c)[i] : i \in DOMAIN FieldOrder(c)}

\* The JSON keys of a class in declaration order (a key is a str: << word >>).
AliasOrder(c) == [i \in DOMAIN FieldOrder(c) |-> << Alias(FieldOrder(c)[i]) >>]

\* The field behind a JSON key.
FieldOf(c, k) == CHOOSE n \in FieldNames(c) : << Alias(n) >> = k

\* model_dump(by_alias=True): the fields of a model under their JSON names.
ModelDump(self) ==
    [k \in {<< Alias(n) >> : n \in FieldNames(self.cls)} |-> self.attrs[FieldOf(self.cls, k)]]

\* x.model_dump_json(by_alias=True): the JSON text of a model, or AttributeError
\* when the class of x has no such method.
ModelDumpJson(x) ==
    IF "model_dump_json" \in Methods(x.cls)
    THEN [ok |-> TRUE, val |-> PyStr(DumpFields(ModelDump(x), AliasOrder(x.cls)))]
    ELSE [ok |-> FALSE, val |-> PyNone]

\* The keys Inbound.to_json keeps from model_dump.
ToJsonInclude ==
    {<< "remark" >>, << "enable" >>, << "listen" >>, << "port" >>, << "protocol" >>,
     << "expiryTime" >>}

\* Inbound.to_json
ToJson(self) ==
    LET include == ToJsonInclude
        dumped == ModelDump(self)
        kept == [k \in (DOMAIN dumped) \cap include |-> dumped[k]]
        settings == ModelDumpJson(self.attrs.settings)
        stream == ModelDumpJson(self.attrs.stream_settings)
        sniffing == ModelDumpJson(self.attrs.sniffing)
        update == [k \in {<< "settings" >>, << "streamSettings" >>, << "sniffing" >>} |->
                      CASE k = << "settings" >> -> settings.val
                        [] k = << "streamSettings" >> -> stream.val
                        [] k = << "sniffing" >> -> sniffing.val]
    IN  IF settings.ok /\ stream.ok /\ sniffing.ok
        THEN [result |-> "returned",
              ret |-> PyDict([k \in (DOMAIN kept) \cup (DOMAIN update) |->
                                 IF k \in DOMAIN update THEN update[k] ELSE kept[k]])]
        ELSE [result |-> "AttributeError", ret |-> None]

\* Settings(clients=[], decryption=..., fallbacks=...)
SettingsOf(decryption, fallbacks) ==
    Instance("Settings", [clients |-> PyList(<< >>), decryption |-> PyStr(decryption),
                          fallbacks |-> PyList(fallbacks)])

\* StreamSettings(security=..., network=...) with the defaults of the other fields
StreamSettingsOf(security, network) ==
    Instance("StreamSettings",
             [security |-> PyStr(security), network |-> PyStr(network),
              tcp_settings |-> PyDict(<< >>), external_proxy |-> PyList(<< >>),
              reality_settings |-> PyDict(<< >>), xtls_settings |-> PyDict(<< >>),
              tls_settings |-> PyDict(<< >>)])

\* Sniffing(enabled=...) with the defaults of the other arguments
SniffingOf(enabled) ==
    Instance("Sniffing", [enabled |-> PyBool(enabled), dest_override |-> PyList(<< >>),
                          metadata_only |-> PyBool(FALSE), route_only |-> PyBool(FALSE)])

\* The inbounds to_json is applied to.
Inbounds ==
    {Instance("Inbound",
        [enable |-> PyBool(en), port |-> PyInt(port), protocol |-> PyStr(<< "vless" >>),
         settings |-> SettingsOf(dec, << >>),
         stream_settings |-> StreamSettingsOf(<< "none" >>, << "tcp" >>),
         sniffing |-> SniffingOf(sn),
         listen |-> PyStr(<< >>), remark |-> PyStr(rem), id |-> PyInt(id),
         up |-> PyInt(0), down |-> PyInt(0), total |-> PyInt(0),
         expiry_time |-> PyInt(exp), client_stats |-> PyList(<< >>),
         tag |-> PyStr(<< "inbound-443" >>)]) :
     en \in BOOLEAN, port \in {443, 8443}, dec \in {<< >>, << "none" >>}, sn \in BOOLEAN,
     rem \in {<< >>, << "r" >>}, id \in {0, 7}, exp \in {0, 1}}

\* ------------------------------------------------- JSON-string validator

\* A validator that hands every input on as it is.
validate_json_input_asis(value) == value

\* JsonModelValidator.validate_json_input (mode="before")
validate_json_input(value) ==
    IF value.t = "str"
    THEN LET r == Loads(value.chars)
         IN  IF r.ok THEN r.val ELSE value
    ELSE value

\* The value of a field in the input of a model: by its JSON name, or the default.
FieldInput(d, k, default) == IF k \in DOMAIN d THEN d[k] ELSE default

\* Settings.model_validate(x): the before-validator, then the fields.  Clients
\* are validated by the Client model; only lists without clients are followed.
SettingsValidate(x) ==
    LET value == validate_json_input(x)
    IN  IF value.t = "obj" /\ value.cls = "Settings"
        THEN [result |-> "returned", ret |-> value]
        ELSE IF value.t # "dict"
        THEN [result |-> "ValidationError", ret |-> None]
        ELSE LET clients == FieldInput(value.members, << "clients" >>, PyList(<< >>))
                 decryption == FieldInput(value.members, << "decryption" >>, PyStr(<< >>))
                 fallbacks == FieldInput(value.members, << "fallbacks" >>, PyList(<< >>))
             IN  IF /\ clients = PyList(<< >>)
                    /\ decryption.t = "str"
                    /\ fallbacks.t = "list"
                 THEN [result |-> "returned",
                       ret |-> Instance("Settings", [clients |-> clients,
                                                     decryption |-> decryption,
                                                     fallbacks |-> fallbacks])]
                 ELSE [result |-> "ValidationError", ret |-> None]

MaxStrLen == 1
MaxListLen == 1

\* The sequences over S of length at most n.
SeqsUpTo(S, n) == UNION {[1 .. k -> S] : k \in 0 .. n}

\* The letters of the strings tried (a word stands for its letters).
LetterSyms == {"a", "none"}

Strings == SeqsUpTo(LetterSyms, MaxStrLen)

Scalars == {PyNone, PyBool(TRUE), PyBool(FALSE)} \cup {PyStr(w) : w \in Strings}

\* The elements of the lists tried.
Elems == Scalars \cup {PyList(<< >>), PyDict(<< >>)}

Lists == SeqsUpTo(Elems, MaxListLen)

\* The Settings models tried.
SettingsVals == {SettingsOf(dec, fb) : dec \in Strings, fb \in Lists}

\* The dictionary form of a model.
DictOf(x) == PyDict(ModelDump(x))

\* The JSON values tried: scalars, lists, the empty object, Settings objects.
JsonValues ==
    Scalars \cup {PyList(q) : q \in Lists} \cup {PyDict(<< >>)}
            \cup {DictOf(x) : x \in SettingsVals}

\* The JSON text of a value (a non-empty object is written as Settings writes it).
JsonText(val) ==
    IF val.t = "dict" /\ DOMAIN val.members # {}
    THEN DumpFields(val.members, AliasOrder("Settings"))
    ELSE DumpValue(val)

\* Texts that are not JSON: a JSON text cut short (no proper prefix of a JSON
\* text without numbers is one), or followed by one more character.
ProperPrefixes(x) == {SubSeq(x, 1, k) : k \in 0 .. Len(x) - 1}
Extensions(x) == {Append(x, c) : c \in Punctuation \cup Literals \cup {DQ} \cup LetterSyms}
NotJsonTexts ==
    UNION {ProperPrefixes(JsonText(val)) \cup Extensions(JsonText(val)) : val \in JsonValues}

\* Inputs that are not a str.
NotStrValues ==
    {val \in JsonValues : val.t # "str"} \cup {PyInt(1)} \cup SettingsVals

\* The arguments of validate_json_input, with what each was made from.
ValidatorInputs ==
    {[fn |-> "validate_json_input", value |-> PyStr(JsonText(val)), kind |-> "json",
      of |-> val] : val \in JsonValues}
    \cup {[fn |-> "validate_json_input", value |-> PyStr(x), kind |-> "not_json",
           of |-> PyNone] : x \in NotJsonTexts}
    \cup {[fn |-> "validate_json_input", value |-> val, kind |-> "not_str",
           of |-> PyNone] : val \in NotStrValues}

\* The arguments of Settings.model_validate: a model in its JSON-string form
\* and in its dictionary form.
ModelValidateInputs ==
    {[fn |-> "model_validate", value |-> PyStr(JsonText(DictOf(x))), kind |-> "json",
      of |-> x] : x \in SettingsVals}
    \cup {[fn |-> "model_validate", value |-> DictOf(x), kind |-> "dict",
           of |-> x] : x \in SettingsVals}

\* ------------------------------------------------------------------ URLs

\* A str is a sequence of characters.
RECURSIVE Rstrip(_)

\* A strip that takes one trailing '/' away and leaves the others.
RstripOnce(x) == IF Len(x) > 0 /\ x[Len(x)] = "/" THEN SubSeq(x, 1, Len(x) - 1) ELSE x

\* host.rstrip("/")
Rstrip(x) == IF Len(x) > 0 /\ x[Len(x)] = "/" THEN Rstrip(SubSeq(x, 1, Len(x) - 1)) ELSE x

\* BaseApi.__init__: self._host = host.rstrip("/")
InitHost(host) == Rstrip(host)

\* BaseApi._url: f"{self._host}/{endpoint}"
Url(host, ep) == host \o << "/" >> \o ep

MaxHostLen == 3
MaxEndpointLen == 2

HostChars == {"h", ":", "/"}
EndpointChars == {"e", "/"}

Hosts == SeqsUpTo(HostChars, MaxHostLen)
Endpoints == SeqsUpTo(EndpointChars, MaxEndpointLen)

\* The arguments of BaseApi(host, ...)._url(endpoint).
UrlInputs == {[fn |-> "url", host |-> h, endpoint |-> e] : h \in Hosts, e \in Endpoints}

\* --------------------------------------- the model functions, one call each

\* The calls of the model functions: the function and its argument.
PureInputs ==
    {[fn |-> "to_json", self |-> inb] : inb \in Inbounds}
    \cup ValidatorInputs
    \cup ModelValidateInputs
    \cup UrlInputs

\* inbound.to_json()
ToJsonCall ==
    /\ pc = "idle"
    /\ arg.fn = "to_json"
    /\ op' = "to_json"
    /\ result' = ToJson(arg.self).result
    /\ ret' = ToJson(arg.self).ret
    /\ pc' = "done"
    /\ UNCHANGED << api, session, max_retries, server, obj, arg, method, endpoint,
                    skip_arg, kwargs, retry, outs, waits, sent, resp, nreq,
                    skip_login, logged_in >>

\* JsonModelValidator.validate_json_input(value)
ValidateJsonInputCall ==
    /\ pc = "idle"
    /\ arg.fn = "validate_json_input"
    /\ op' = "validate_json_input"
    /\ result' = "returned"
    /\ ret' = validate_json_input(arg.value)
    /\ pc' = "done"
    /\ UNCHANGED << api, session, max_retries, server, obj, arg, method, endpoint,
                    skip_arg, kwargs, retry, outs, waits, sent, resp, nreq,
                    skip_login, logged_in >>

\* Settings.model_validate(value)
ModelValidateCall ==
    /\ pc = "idle"
    /\ arg.fn = "model_validate"
    /\ op' = "model_validate"
    /\ result' = SettingsValidate(arg.value).result
    /\ ret' = SettingsValidate(arg.value).ret
    /\ pc' = "done"
    /\ UNCHANGED << api, session, max_retries, server, obj, arg, method, endpoint,
                    skip_arg, kwargs, retry, outs, waits, sent, resp, nreq,
                    skip_login, logged_in >>

\* BaseApi(host, username, password)._url(endpoint)
UrlCall ==
    /\ pc = "idle"
    /\ arg.fn = "url"
    /\ op' = "url"
    /\ result' = "returned"
    /\ ret' = Url(InitHost(arg.host), arg.endpoint)
    /\ pc' = "done"
    /\ UNCHANGED << api, session, max_retries, server, obj, arg, method, endpoint,
                    skip_arg, kwargs, retry, outs, waits, sent, resp, nreq,
                    skip_login, logged_in >>

\* A model object and the argument of one call, before the call.
InitPure ==
    /\ api = "none"
    /\ session = [o \in Objs |-> None]
    /\ max_retries = [o \in Objs |-> DefaultMaxRetries]
    /\ server = "up"
    /\ op = "none"
    /\ obj = "client"
    /\ arg \in PureInputs
    /\ method = "GET"
    /\ endpoint = ""
    /\ skip_arg = "absent"
    /\ kwargs = "absent"
    /\ retry = 1
    /\ outs = << >>
    /\ waits = << >>
    /\ sent = << >>
    /\ pc = "idle"
    /\ resp = NoResp
    /\ result = "pending"
    /\ ret = None
    /\ nreq = 0
    /\ skip_login = FALSE
    /\ logged_in = FALSE

NextPure ==
    \/ ToJsonCall
    \/ ValidateJsonInputCall
    \/ ModelValidateCall
    \/ UrlCall

SpecPure == InitPure /\ [][NextPure]_vars

\* ---------------------------------------------------------------- claims

\* A call of _request_with_retry is recorded (in progress or ended).
InCall == nreq = 1 /\ pc \in {"loop", "sleep", "done"}

\* The call of _request_with_retry has ended.
CallEnded == nreq = 1 /\ pc = "done"

Last(q) == q[Len(q)]

\* The request has returned a response that passed (or skipped) the check.
Received == CallEnded /\ Len(outs) > 0 /\ Last(outs) = "ok"

\* C1: with max_retries >= 1 a call makes at least one and at most
\* max_retries attempts, and every attempt but the last one made failed with
\* ConnectionError or Timeout.
C1_RetryOnlyTransient ==
    (InCall /\ max_retries[obj] >= 1) =>
        /\ Len(outs) <= max_retries[obj]
        /\ (pc = "done" => Len(outs) >= 1)
        /\ \A k \in 1 .. (Len(outs) - 1) : outs[k] \in {"ConnectionError", "Timeout"}

\* C1 witness: a call that used up its attempts, the last one failing with a
\* transient error that was raised to the caller.
C1_Witness ==
    /\ CallEnded
    /\ max_retries[obj] >= 1
    /\ Len(outs) = max_retries[obj]
    /\ Last(outs) \in {"ConnectionError", "Timeout"}
    /\ result = Last(outs)

\* Attempts 1..k-1 failed with a transient error and the panel answers
\* attempt k with a 2xx response (received by the call, or ready for a call
\* that ended before making attempt k).
AttemptGetsOk(k) ==
    /\ k - 1 <= Len(outs)
    /\ \A i \in 1 .. (k - 1) : outs[i] \in {"ConnectionError", "Timeout"}
    /\ \/ Len(outs) >= k /\ outs[k] = "ok"
       \/ Len(outs) = k - 1 /\ ServerOutcome(server) = "ok"

\* C2: a request made with skip_check=True returns the 2xx response of
\* whichever attempt k in 1..max_retries gets one after k-1 transient
\* failures, whatever its success field.
C2_SkipCheckEveryAttempt ==
    (CallEnded /\ op = "request" /\ skip_arg = "True"
        /\ \E k \in 1 .. max_retries[obj] : AttemptGetsOk(k))
    => result = "returned"

\* C3: without skip_check, ValueError is raised exactly when the 2xx
\* response has a missing or falsy success field, and the request returns
\* only when the status is ok and success is truthy; _check_response raises
\* exactly for the falsy values.
C3_CheckResponse ==
    /\ \A r \in Responses :
          (check_response(r) = "ValueError") <=> (r.success \in {"missing", "null", "false"})
    /\ (CallEnded /\ skip_arg # "True") =>
          /\ (result = "returned") =>
                (Len(outs) > 0 /\ Last(outs) = "ok" /\ resp.success = "true")
          /\ (op = "request") =>
                ((result = "ValueError") <=>
                    (Len(outs) > 0 /\ Last(outs) = "ok"
                        /\ resp.success \in {"missing", "null", "false"}))

\* C3 witness: a request without skip_check whose 2xx response has no
\* success field ended with ValueError.
C3_Witness ==
    /\ CallEnded
    /\ op = "request"
    /\ skip_arg = "absent"
    /\ Last(outs) = "ok"
    /\ resp.success = "missing"
    /\ result = "ValueError"

\* C4: after the k-th failed attempt (k < max_retries) the call waits
\* 1*(k+1) seconds before attempt k+1; there is no wait before the first
\* attempt nor after the last failed one.
C4_LinearBackoff ==
    (InCall /\ pc \in {"loop", "done"}) =>
        /\ \A k \in 1 .. Len(outs) :
              (outs[k] \in {"ConnectionError", "Timeout"} /\ k < max_retries[obj])
                  => (Len(waits) >= k /\ waits[k] = k + 1)
        /\ Len(waits) <= Len(outs)
        /\ (pc = "done" /\ Len(outs) > 0) => Len(waits) = Len(outs) - 1

\* The step is an attempt: a request goes out.
AttemptStep == pc = "loop" /\ Len(sent') = Len(sent) + 1

LoginEnds(ops) == pc \in {"loop", "sleep"} /\ pc' = "done" /\ op \in ops

\* The login's request has returned its response (2xx, check passed).
LoginGot == Len(outs') > 0 /\ Last(outs') = "ok" /\ resp'.success = "true"

\* C6: login stores the response's 'session' cookie when it is present and
\* non-empty; with no cookie or an empty one it raises ValueError and the
\* stored session stays; when the request itself raises, the session stays.
C6_LoginStoresCookie ==
    [][LoginEnds({"login", "api_login", "ctor"}) =>
          /\ (LoginGot /\ resp'.cookie \in Cookies) =>
                (result' = "returned" /\ session'[obj] = resp'.cookie)
          /\ (LoginGot /\ resp'.cookie \in {"missing", "empty"}) =>
                (result' = "ValueError" /\ session'[obj] = session[obj])
          /\ ~LoginGot => (result' # "returned" /\ session'[obj] = session[obj])
      ]_vars

\* C6 witness: a login answered with an empty session cookie raised
\* ValueError and the session stored by an earlier login is still there.
C6_Witness ==
    /\ CallEnded
    /\ op = "login"
    /\ Received
    /\ resp.success = "true"
    /\ resp.cookie = "empty"
    /\ result = "ValueError"
    /\ session[obj] \in Cookies

\* C7: after an Api.login that returns (the constructor's included) the
\* three APIs hold the same session, the cookie of that login; when
\* client.login raises, the inbound and database sessions stay.
C7_SessionShared ==
    [][LoginEnds({"api_login", "ctor"}) =>
          IF result' = "returned"
          THEN /\ resp'.cookie \in Cookies
               /\ \A o \in Objs : session'[o] = resp'.cookie
          ELSE /\ session'["inbound"] = session["inbound"]
               /\ session'["database"] = session["database"]
      ]_vars

\* C7 witness: an Api.login replaced a session the three APIs already shared.
C7_Witness ==
    /\ CallEnded
    /\ op = "api_login"
    /\ result = "returned"
    /\ Len(sent) >= 1
    /\ Last(sent).cookie \in Cookies
    /\ resp.cookie # Last(sent).cookie
    /\ \A o \in Objs : session[o] = resp.cookie

\* C8: Api(..., skip_login=True) sends nothing and leaves the client session
\* None; Api(..., skip_login=False) makes exactly one login before it
\* returns, and it returns only if that login did.
C8_ConstructorLogin ==
    (op = "ctor") =>
        IF skip_login
        THEN /\ pc = "done"
             /\ nreq = 0
             /\ sent = << >>
             /\ session["client"] = None
             /\ api = "ready"
        ELSE /\ nreq = 1
             /\ \A i \in 1 .. Len(sent) :
                   sent[i].method = "POST" /\ sent[i].endpoint = "login"
             /\ (pc # "done") => api = "none"
             /\ (pc = "done" /\ result = "returned")
                   => (api = "ready" /\ Len(sent) >= 1 /\ session["client"] \in Cookies)
             /\ (pc = "done" /\ result # "returned") => api = "none"

\* C8 witness: a constructor whose login was answered without a session
\* cookie raised, and no Api was built.
C8_Witness ==
    /\ op = "ctor"
    /\ ~skip_login
    /\ pc = "done"
    /\ Received
    /\ result = "ValueError"
    /\ api = "none"

\* C9: get_by_id returns None, and does not raise, when the response's 'obj'
\* is missing or null.
C9_GetByIdNone ==
    (op = "get_by_id" /\ Received /\ resp.success = "true"
        /\ resp.obj \in {"missing", "null"})
    => (result = "returned" /\ ret = None)

\* C10: get_by_email returns None when the response's 'obj' is missing, null
\* or empty and the Client built from 'obj' otherwise, and makes one logical
\* GET to panel/api/inbounds/getClientTraffics/{email}.
C10_GetByEmail ==
    (op = "get_by_email") =>
        /\ nreq = 1
        /\ \A i \in 1 .. Len(sent) :
              /\ sent[i].method = "GET"
              /\ sent[i].endpoint = "panel/api/inbounds/getClientTraffics/" \o arg
        /\ (Received /\ resp.success = "true") =>
              /\ result = "returned"
              /\ (resp.obj \in {"missing", "null", "empty"}) => ret = None
              /\ (resp.obj = "object") => ret = "Client"

\* C10 witness: get_by_email answered with an empty 'obj' returned None.
C10_Witness ==
    /\ op = "get_by_email"
    /\ Received
    /\ resp.success = "true"
    /\ resp.obj = "empty"
    /\ result = "returned"
    /\ ret = None

\* C11: get_ips returns None when the response's 'obj' is the sentinel
\* 'No IP Record', and 'obj' unchanged otherwise (None when there is none).
C11_GetIps ==
    (op = "get_ips" /\ Received /\ resp.success = "true") =>
        /\ result = "returned"
        /\ (resp.obj = "No IP Record") => ret = None
        /\ (resp.obj \in {"missing", "null"}) => ret = None
        /\ (resp.obj \notin {"No IP Record", "missing", "null"}) => ret = resp.obj

\* C11 witness: get_ips answered with the sentinel returned None.
C11_Witness ==
    /\ op = "get_ips"
    /\ Received
    /\ resp.success = "true"
    /\ resp.obj = "No IP Record"
    /\ result = "returned"
    /\ ret = None

\* C12: online returns a list, never None: 'obj' when it is a non-empty list,
\* the empty list when 'obj' is missing, null or empty.
C12_Online ==
    (op = "online" /\ Received /\ resp.success = "true") =>
        /\ result = "returned"
        /\ ret # None
        /\ ret \in {EmptyList} \cup EmailLists
        /\ (resp.obj \in EmailLists) => ret = resp.obj
        /\ (resp.obj \in {"missing", "null", EmptyList}) => ret = EmptyList

\* C12 witness: online answered with a null 'obj' returned the empty list.
C12_Witness ==
    /\ op = "online"
    /\ Received
    /\ resp.success = "true"
    /\ resp.obj = "null"
    /\ result = "returned"
    /\ ret = EmptyList

\* C13: Inbound.to_json returns a dictionary whose key set is exactly remark,
\* enable, listen, port, protocol, expiryTime, settings, streamSettings and
\* sniffing; the six scalar keys hold the inbound's own values and the three
\* nested keys hold JSON strings.
C13_ToJsonKeys ==
    (op = "to_json" /\ pc = "done") =>
        /\ result = "returned"
        /\ DOMAIN ret.members = {<< "remark" >>, << "enable" >>, << "listen" >>, << "port" >>,
                           << "protocol" >>, << "expiryTime" >>, << "settings" >>,
                           << "streamSettings" >>, << "sniffing" >>}
        /\ ret.members[<< "remark" >>] = arg.self.attrs.remark
        /\ ret.members[<< "enable" >>] = arg.self.attrs.enable
        /\ ret.members[<< "listen" >>] = arg.self.attrs.listen
        /\ ret.members[<< "port" >>] = arg.self.attrs.port
        /\ ret.members[<< "protocol" >>] = arg.self.attrs.protocol
        /\ ret.members[<< "expiryTime" >>] = arg.self.attrs.expiry_time
        /\ \A k \in {<< "settings" >>, << "streamSettings" >>, << "sniffing" >>} :
               ret.members[k].t = "str"

\* C14: the JSON-string validator replaces a string that is valid JSON by the
\* parsed value, hands on unchanged a string that is not valid JSON (raising
\* nothing) and hands on unchanged an input that is not a string; so validating
\* the JSON-string form of a model gives the same model as validating its
\* dictionary form.
C14_JsonStringValidator ==
    /\ (op = "validate_json_input" /\ pc = "done") =>
           /\ result = "returned"
           /\ (arg.kind = "json") => ret = arg.of
           /\ (arg.kind \in {"not_json", "not_str"}) => ret = arg.value
    /\ (op = "model_validate" /\ pc = "done") =>
           /\ result = "returned"
           /\ ret = arg.of

C14_Witness ==
    /\ op = "model_validate"
    /\ pc = "done"
    /\ arg.kind = "json"
    /\ arg.of.attrs.fallbacks.items # << >>
    /\ arg.of.attrs.decryption.chars # << >>
    /\ result = "returned"
    /\ ret = arg.of

\* A call of _request_with_retry is in progress.
Running == nreq = 1 /\ pc \in {"loop", "sleep"}

C16_Url ==
    (op = "url" /\ pc = "done") =>
        LET h == arg.host
            e == arg.endpoint
            j == Len(ret) - Len(e)
        IN  /\ \E k \in 0 .. Len(h) :
                   /\ \A i \in k + 1 .. Len(h) : h[i] = "/"
                   /\ k = 0 \/ h[k] # "/"
                   /\ ret = SubSeq(h, 1, k) \o << "/" >> \o e
            /\ (e = << >> \/ e[1] # "/") =>
                   /\ j >= 1
                   /\ ret[j] = "/"
                   /\ j = 1 \/ ret[j - 1] # "/"
                   /\ j = Len(ret) \/ ret[j + 1] # "/"
            /\ ret = Url(InitHost(Append(h, "/")), e)
            /\ (Len(h) > 0 /\ h[Len(h)] = "/") =>
                   ret = Url(InitHost(SubSeq(h, 1, Len(h) - 1)), e)

C16_Witness ==
    /\ op = "url"
    /\ pc = "done"
    /\ arg.host = << "h", "/", "/" >>
    /\ arg.endpoint = << "e" >>
    /\ ret = << "h", "/", "e" >>

====
